---------------------------- MODULE Spec2Model ----------------------------
(***************************************************************************)
(* The storage adapters of core/storage: RocksAdapter (adapter/rocks.rs),   *)
(* its prefixed physical keys and its two call counters, the in-memory     *)
(* adapter it is compared with, and the storage facade's calls on it.       *)
(*                                                                          *)
(* An adapter operation is an operator from (adapter state, arguments,      *)
(* injected failure) to (adapter state, result); the actions apply these    *)
(* operators to the state variables, and the properties read the results    *)
(* the operators return in each reachable state.                            *)
(***************************************************************************)
EXTENDS Integers, Sequences, FiniteSets, TLC

VARIABLES
    db,      \* RocksAdapter.db: partition name -> (physical key -> value bytes)
    i,       \* RocksAdapter.i: the counter batch_modify folds into its keys
    g,       \* RocksAdapter.g: the counter get folds into its keys
    mem,     \* MemoryAdapter: category -> (encoded key -> value bytes)
    calls    \* the calls in progress on the shared adapter: caller -> locals

vars == <<db, i, g, mem, calls>>

----------------------------------------------------------------------------
(* Bounds and program constants *)

\* Most keys batch_modify may process in one behaviour (caps counter i).
MaxWrites == 2

\* Most successful engine lookups of get in one behaviour (caps counter g).
MaxReads == 1

\* The counters are AtomicU32 starting at 0.  fetch_add wraps at 2^32, a value
\* the caps above keep out of reach, so the counters are plain naturals here.

\* The counter value from which the marker byte changes.
PREFIX_THRESHOLD == 5000

\* The marker byte below the threshold, and from it on.
MARKER_B == 98
MARKER_A == 97

----------------------------------------------------------------------------
(* Categories and partitions *)

StorageCategory == {"Block", "Receipt", "SignedTransaction", "Wal"}

C_BLOCKS == "c1"
C_SIGNED_TRANSACTIONS == "c2"
C_RECEIPTS == "c3"
C_WALS == "c4"

\* A copy-paste slip: Receipt is given the partition of SignedTransaction.
map_category_slip(c) ==
    CASE c = "Block" -> C_BLOCKS
      [] c = "Receipt" -> C_SIGNED_TRANSACTIONS
      [] c = "SignedTransaction" -> C_SIGNED_TRANSACTIONS
      [] c = "Wal" -> C_WALS

map_category(c) ==
    CASE c = "Block" -> C_BLOCKS
      [] c = "Receipt" -> C_RECEIPTS
      [] c = "SignedTransaction" -> C_SIGNED_TRANSACTIONS
      [] c = "Wal" -> C_WALS

\* The partitions RocksAdapter::new opens.
categories == {map_category(c) : c \in StorageCategory}

----------------------------------------------------------------------------
(* Schemas and the codec boundary *)

\* The schemas the operations are called with: one per category written here.
Schemas == {"TransactionSchema", "ReceiptSchema"}

\* The schemas the storage facade adds: blocks by height, the height of a
\* block hash, and the singleton records (latest block, latest proof, the
\* consensus write-ahead log).
FacadeSchemas ==
    {"BlockSchema", "HashHeightSchema", "LatestBlockSchema", "LatestProofSchema",
     "OverlordWalSchema"}

SchemaCategory(s) ==
    CASE s = "TransactionSchema" -> "SignedTransaction"
      [] s = "ReceiptSchema" -> "Receipt"
      [] s = "OverlordWalSchema" -> "Wal"
      [] OTHER -> "Block"

\* The well-known keys of the singleton records.
LATEST_BLOCK_KEY == 90
LATEST_PROOF_KEY == 91
OVERLORD_WAL_KEY == 92

\* The hash of the block of height h: bytes no height encodes to.
BlockHash(h) == 10 + h

\* Logical keys and values of a schema (small sets; TransactionSchema and
\* ReceiptSchema share the encoded bytes of key 1; the keys of the schemas
\* of category Block are pairwise distinct).
KeysOf(s) ==
    CASE s = "TransactionSchema" -> {1, 2}
      [] s = "ReceiptSchema" -> {1}
      [] s = "BlockSchema" -> {1, 2}
      [] s = "HashHeightSchema" -> {BlockHash(1), BlockHash(2)}
      [] s = "LatestBlockSchema" -> {LATEST_BLOCK_KEY}
      [] s = "LatestProofSchema" -> {LATEST_PROOF_KEY}
      [] s = "OverlordWalSchema" -> {OVERLORD_WAL_KEY}

ValsOf(s) == IF s = "ReceiptSchema" THEN {1} ELSE {1, 2}

\* The first byte of a value's encoding names its type.
ValueTag(s) ==
    CASE s = "TransactionSchema" -> 20
      [] s = "ReceiptSchema" -> 30
      [] s \in {"BlockSchema", "LatestBlockSchema"} -> 10
      [] s = "HashHeightSchema" -> 11
      [] s = "LatestProofSchema" -> 12
      [] s = "OverlordWalSchema" -> 40

EncodeKey(s, k) == <<k>>
EncodeVal(s, v) == <<ValueTag(s), v>>

\* Results: a tag and, for Some, the decoded value.
R(tag) == [tag |-> tag, val |-> 0]
Some(v) == [tag |-> "Some", val |-> v]
ErrorTags == {"CategoryNotFound", "CodecError", "RocksDB", "BatchLengthMismatch"}

\* decode: bytes of another type, or cut short, do not decode.
DecodeVal(s, bytes) ==
    IF Len(bytes) = 2 /\ bytes[1] = ValueTag(s) /\ bytes[2] \in ValsOf(s)
    THEN Some(bytes[2])
    ELSE R("CodecError")

\* StorageBatchModify: Insert(value) or Remove.
BatchInsert(v) == [kind |-> "Insert", val |-> v]
BatchRemove == [kind |-> "Remove", val |-> 0]
MutsOf(s) == {BatchInsert(v) : v \in ValsOf(s)} \cup {BatchRemove}

----------------------------------------------------------------------------
(* The engine: one key-value map per partition *)

put_cf(column, key, val) ==
    [x \in (DOMAIN column) \cup {key} |-> IF x = key THEN val ELSE column[x]]

delete_cf(column, key) ==
    [x \in (DOMAIN column) \ {key} |-> column[x]]

\* A write that applies the first entry of the batch and stops.
write_head(column, pairs) ==
    IF pairs = <<>> THEN column
    ELSE IF Head(pairs).put THEN put_cf(column, Head(pairs).key, Head(pairs).val)
    ELSE delete_cf(column, Head(pairs).key)

\* A WriteBatch applied in the order its entries were added.
RECURSIVE write(_, _)
write(column, pairs) ==
    IF pairs = <<>> THEN column
    ELSE LET p == Head(pairs)
             next == IF p.put THEN put_cf(column, p.key, p.val)
                     ELSE delete_cf(column, p.key)
         IN write(next, Tail(pairs))

EmptyMap == [x \in {} |-> <<>>]

----------------------------------------------------------------------------
(* The physical key of get and batch_modify *)

\* BigEndian::write_u32
write_u32(n) ==
    << (n \div 16777216) % 256, (n \div 65536) % 256, (n \div 256) % 256, n % 256 >>

\* real_key with the threshold comparison off by one.
real_key_inclusive(counter, key) ==
    << IF counter <= PREFIX_THRESHOLD THEN MARKER_B ELSE MARKER_A >>
        \o write_u32(counter) \o key

real_key(counter, key) ==
    << IF counter < PREFIX_THRESHOLD THEN MARKER_B ELSE MARKER_A >>
        \o write_u32(counter) \o key

\* get_column: the partition of the schema's category, if the store has it.
get_column(dbh, s) ==
    LET category == map_category(SchemaCategory(s))
    IN  [ok |-> category \in DOMAIN dbh, column |-> category]


----------------------------------------------------------------------------
(* RocksAdapter's operations.  st is the adapter: [db, i, g].  f is the     *)
(* failure injected into the call: "none", "encode" (a key or value fails   *)
(* to encode) or "engine" (the engine call fails).                          *)

Faults == {"none", "encode", "engine"}

Ret(st, res) == [st |-> st, res |-> res]

\* insert encoding the key and value before it resolves the partition.
insert_encode_first(st, s, k, v, f) ==
    LET c == get_column(st.db, s)
        key == EncodeKey(s, k)
        val == EncodeVal(s, v)
    IN  IF f = "encode" THEN Ret(st, R("CodecError"))
        ELSE IF ~c.ok THEN Ret(st, R("CategoryNotFound"))
        ELSE IF f = "engine" THEN Ret(st, R("RocksDB"))
        ELSE Ret([st EXCEPT !.db[c.column] = put_cf(@, key, val)], R("Ok"))

insert(st, s, k, v, f) ==
    LET c == get_column(st.db, s)
        key == EncodeKey(s, k)
        val == EncodeVal(s, v)
    IN  IF ~c.ok THEN Ret(st, R("CategoryNotFound"))
        ELSE IF f = "encode" THEN Ret(st, R("CodecError"))
        ELSE IF f = "engine" THEN Ret(st, R("RocksDB"))
        ELSE Ret([st EXCEPT !.db[c.column] = put_cf(@, key, val)], R("Ok"))

\* get looking up the bare encoded key, as contains does.
get_bare(st, s, k, f) ==
    LET c == get_column(st.db, s)
        key == EncodeKey(s, k)
        column == st.db[c.column]
        counted == [st EXCEPT !.g = @ + 1]
    IN  IF ~c.ok THEN Ret(st, R("CategoryNotFound"))
        ELSE IF f = "encode" THEN Ret(st, R("CodecError"))
        ELSE IF f = "engine" THEN Ret(st, R("RocksDB"))
        ELSE IF key \in DOMAIN column
             THEN Ret(counted, DecodeVal(s, column[key]))
             ELSE Ret(counted, R("None"))

\* get taking bytes that fail to decode for a missing key.
get_lenient(st, s, k, f) ==
    LET c == get_column(st.db, s)
        key == EncodeKey(s, k)
        rk == real_key(st.g, key)
        column == st.db[c.column]
        counted == [st EXCEPT !.g = @ + 1]
    IN  IF ~c.ok THEN Ret(st, R("CategoryNotFound"))
        ELSE IF f = "encode" THEN Ret(st, R("CodecError"))
        ELSE IF f = "engine" THEN Ret(st, R("RocksDB"))
        ELSE IF rk \in DOMAIN column /\ DecodeVal(s, column[rk]).tag = "Some"
             THEN Ret(counted, DecodeVal(s, column[rk]))
             ELSE Ret(counted, R("None"))

get(st, s, k, f) ==
    LET c == get_column(st.db, s)
        key == EncodeKey(s, k)
        rk == real_key(st.g, key)
        column == st.db[c.column]
        counted == [st EXCEPT !.g = @ + 1]
    IN  IF ~c.ok THEN Ret(st, R("CategoryNotFound"))
        ELSE IF f = "encode" THEN Ret(st, R("CodecError"))
        ELSE IF f = "engine" THEN Ret(st, R("RocksDB"))
        ELSE IF rk \in DOMAIN column
             THEN Ret(counted, DecodeVal(s, column[rk]))
             ELSE Ret(counted, R("None"))

\* remove going through the prefixed key path of get, counter included.
remove_prefixed(st, s, k, f) ==
    LET c == get_column(st.db, s)
        key == EncodeKey(s, k)
    IN  IF ~c.ok THEN Ret(st, R("CategoryNotFound"))
        ELSE IF f = "encode" THEN Ret(st, R("CodecError"))
        ELSE IF f = "engine" THEN Ret(st, R("RocksDB"))
        ELSE Ret([st EXCEPT !.db[c.column] = delete_cf(@, real_key(st.g, key)),
                            !.g = @ + 1], R("Ok"))

remove(st, s, k, f) ==
    LET c == get_column(st.db, s)
        key == EncodeKey(s, k)
    IN  IF ~c.ok THEN Ret(st, R("CategoryNotFound"))
        ELSE IF f = "encode" THEN Ret(st, R("CodecError"))
        ELSE IF f = "engine" THEN Ret(st, R("RocksDB"))
        ELSE Ret([st EXCEPT !.db[c.column] = delete_cf(@, key)], R("Ok"))

\* contains written with get's decode step: found bytes must decode.
contains_decoding(st, s, k, f) ==
    LET c == get_column(st.db, s)
        key == EncodeKey(s, k)
        column == st.db[c.column]
    IN  IF ~c.ok THEN Ret(st, R("CategoryNotFound"))
        ELSE IF f = "encode" THEN Ret(st, R("CodecError"))
        ELSE IF f = "engine" THEN Ret(st, R("RocksDB"))
        ELSE IF key \notin DOMAIN column THEN Ret(st, R("False"))
        ELSE IF DecodeVal(s, column[key]).tag = "Some" THEN Ret(st, R("True"))
        ELSE Ret(st, R("CodecError"))

contains(st, s, k, f) ==
    LET c == get_column(st.db, s)
        key == EncodeKey(s, k)
    IN  IF ~c.ok THEN Ret(st, R("CategoryNotFound"))
        ELSE IF f = "encode" THEN Ret(st, R("CodecError"))
        ELSE IF f = "engine" THEN Ret(st, R("RocksDB"))
        ELSE Ret(st, R(IF key \in DOMAIN st.db[c.column] THEN "True" ELSE "False"))

(* batch_modify.  bf is the failure injected: 0 none, p in 1..Len(keys) the  *)
(* key or value at position p fails to encode, -1 the engine write fails.    *)

\* The loop of batch_modify over the first n pairs, counter at ctr on entry.
batch_pairs(s, keys, vals, ctr, n) ==
    [p \in 1..n |->
        [key |-> real_key(ctr + p - 1, EncodeKey(s, keys[p])),
         put |-> vals[p].kind = "Insert",
         val |-> IF vals[p].kind = "Insert" THEN EncodeVal(s, vals[p].val) ELSE <<>>]]

Min(a, b) == IF a < b THEN a ELSE b

\* batch_modify without the length check: zip stops at the shorter list.
batch_modify_unchecked(st, s, keys, vals, bf) ==
    LET c == get_column(st.db, s)
        len == Min(Len(keys), Len(vals))
        n == IF bf > 0 /\ bf <= len THEN bf - 1 ELSE len
        pairs == batch_pairs(s, keys, vals, st.i, n)
        counted == [st EXCEPT !.i = @ + n]
    IN  IF ~c.ok THEN Ret(st, R("CategoryNotFound"))
        ELSE IF bf > 0 /\ bf <= len THEN Ret(counted, R("CodecError"))
        ELSE IF bf = -1 THEN Ret(counted, R("RocksDB"))
        ELSE Ret([counted EXCEPT !.db[c.column] = write(@, pairs)], R("Ok"))

\* batch_modify writing each pair to the store as the loop reaches it,
\* instead of collecting them in one WriteBatch.
batch_modify_unbatched(st, s, keys, vals, bf) ==
    LET c == get_column(st.db, s)
        n == IF bf > 0 THEN bf - 1 ELSE Len(keys)
        pairs == batch_pairs(s, keys, vals, st.i, n)
        counted == [st EXCEPT !.i = @ + n]
        written == [counted EXCEPT !.db[c.column] = write(@, pairs)]
    IN  IF Len(keys) # Len(vals) THEN Ret(st, R("BatchLengthMismatch"))
        ELSE IF ~c.ok THEN Ret(st, R("CategoryNotFound"))
        ELSE IF bf > 0 THEN Ret(written, R("CodecError"))
        ELSE IF bf = -1 THEN Ret(written, R("RocksDB"))
        ELSE Ret(written, R("Ok"))

batch_modify(st, s, keys, vals, bf) ==
    LET c == get_column(st.db, s)
        n == IF bf > 0 THEN bf - 1 ELSE Len(keys)
        pairs == batch_pairs(s, keys, vals, st.i, n)
        counted == [st EXCEPT !.i = @ + n]
    IN  IF Len(keys) # Len(vals) THEN Ret(st, R("BatchLengthMismatch"))
        ELSE IF ~c.ok THEN Ret(st, R("CategoryNotFound"))
        ELSE IF bf > 0 THEN Ret(counted, R("CodecError"))
        ELSE IF bf = -1 THEN Ret(counted, R("RocksDB"))
        ELSE Ret([counted EXCEPT !.db[c.column] = write(@, pairs)], R("Ok"))

----------------------------------------------------------------------------
(* The in-memory adapter: one map per category, keyed by the encoded key *)

mem_insert(m, s, k, v) ==
    [m EXCEPT ![SchemaCategory(s)] = put_cf(@, EncodeKey(s, k), EncodeVal(s, v))]

mem_remove(m, s, k) ==
    [m EXCEPT ![SchemaCategory(s)] = delete_cf(@, EncodeKey(s, k))]

mem_get(m, s, k) ==
    LET map == m[SchemaCategory(s)]
        key == EncodeKey(s, k)
    IN  IF key \in DOMAIN map THEN DecodeVal(s, map[key]) ELSE R("None")

mem_contains(m, s, k) ==
    R(IF EncodeKey(s, k) \in DOMAIN m[SchemaCategory(s)] THEN "True" ELSE "False")

mem_batch_modify(m, s, keys, vals) ==
    LET pairs == [p \in 1..Len(keys) |->
                    [key |-> EncodeKey(s, keys[p]),
                     put |-> vals[p].kind = "Insert",
                     val |-> IF vals[p].kind = "Insert"
                             THEN EncodeVal(s, vals[p].val) ELSE <<>>]]
    IN  IF Len(keys) # Len(vals) THEN m
        ELSE [m EXCEPT ![SchemaCategory(s)] = write(@, pairs)]

----------------------------------------------------------------------------
(* The storage facade over RocksAdapter: each operation is a schema and the *)
(* adapter calls it makes.  A transaction, receipt, block, proof or log     *)
(* entry is named by the field the facade keys or compares it by (tx_hash,  *)
(* height, block_hash, the bytes).                                           *)

\* insert_transactions / insert_receipts: one batch_modify inserting each
\* item under its tx_hash.
insert_items(st, s, items) ==
    batch_modify(st, s, items, [p \in 1..Len(items) |-> BatchInsert(items[p])], 0)

\* get_transactions / get_receipts: one get per hash, in the order of the
\* list; res is the list of their results.
RECURSIVE get_items(_, _, _)
get_items(st, s, hashes) ==
    IF hashes = <<>> THEN Ret(st, <<>>)
    ELSE LET r == get(st, s, Head(hashes), "none")
             rest == get_items(r.st, s, Tail(hashes))
         IN  Ret(rest.st, <<r.res>> \o rest.res)

insert_transactions(st, txs) == insert_items(st, "TransactionSchema", txs)
get_transactions(st, hashes) == get_items(st, "TransactionSchema", hashes)
insert_receipts(st, receipts) == insert_items(st, "ReceiptSchema", receipts)
get_receipts(st, hashes) == get_items(st, "ReceiptSchema", hashes)

\* insert_block: the block under its height, its height under its hash, and
\* the block under the latest-block key.
insert_block(st, h) ==
    LET r1 == insert(st, "BlockSchema", h, h, "none")
        r2 == insert(r1.st, "HashHeightSchema", BlockHash(h), h, "none")
        r3 == insert(r2.st, "LatestBlockSchema", LATEST_BLOCK_KEY, h, "none")
    IN  IF r1.res.tag # "Ok" THEN r1 ELSE IF r2.res.tag # "Ok" THEN r2 ELSE r3

get_block_by_height(st, h) == get(st, "BlockSchema", h, "none")

get_block_by_hash(st, x) ==
    LET r == get(st, "HashHeightSchema", x, "none")
    IN  IF r.res.tag = "Some" THEN get(r.st, "BlockSchema", r.res.val, "none") ELSE r

get_latest_block(st) == get(st, "LatestBlockSchema", LATEST_BLOCK_KEY, "none")

update_latest_proof(st, proof) ==
    insert(st, "LatestProofSchema", LATEST_PROOF_KEY, proof, "none")

get_latest_proof(st) == get(st, "LatestProofSchema", LATEST_PROOF_KEY, "none")

update_overlord_wal(st, info) ==
    insert(st, "OverlordWalSchema", OVERLORD_WAL_KEY, info, "none")

load_overlord_wal(st) == get(st, "OverlordWalSchema", OVERLORD_WAL_KEY, "none")

----------------------------------------------------------------------------
(* State, inputs and actions *)

\* The adapter as the operations see it.
St == [db |-> db, i |-> i, g |-> g]

\* The tasks sharing the adapter (Arc<RocksAdapter>): two that call
\* batch_modify, one that calls get and contains.
Writers == {"w1", "w2"}
Readers == {"r1"}

\* The locals of a call: where it is (pc), its arguments, the position p in
\* the batch, the counter value loaded for the 4 bytes (buf), the marker
\* pushed, the pairs collected, and the result once the call is done.
Idle ==
    [pc |-> "idle", s |-> "TransactionSchema", keys |-> <<>>, vals |-> <<>>,
     p |-> 0, buf |-> 0, marker |-> 0, pairs |-> <<>>, res |-> R("None")]

NoCalls == [c \in Writers \cup Readers |-> Idle]

\* RocksAdapter::new: every partition open and empty, both counters 0.
NewDb == [c \in categories |-> EmptyMap]
NewMem == [c \in StorageCategory |-> EmptyMap]

\* RocksAdapter::new
new == [db |-> NewDb, i |-> 0, g |-> 0]

Init ==
    /\ db = new.db
    /\ i = new.i
    /\ g = new.g
    /\ mem = NewMem
    /\ calls = NoCalls

\* A store opened without the Receipt partition: the case get_column's
\* CategoryNotFound is written for.
InitCf ==
    /\ db \in {NewDb, [c \in categories \ {C_RECEIPTS} |-> EmptyMap]}
    /\ i = 0
    /\ g = 0
    /\ mem = NewMem
    /\ calls = NoCalls

\* Sequences of length 0..n over S.
SeqsUpTo(S, n) == UNION {[1..m -> S] : m \in 0..n}

\* The counter values a behaviour may start from: 0, as new leaves them, and
\* the last value below the marker threshold.
CounterStarts == {0, PREFIX_THRESHOLD - 1}

\* How many more counts a counter at c may take: max from where it started.
Room(c, max) ==
    IF \E s \in CounterStarts : s <= c /\ c < s + max
    THEN (CHOOSE s \in CounterStarts : s <= c /\ c < s + max) + max - c
    ELSE 0

\* The batches a call may carry: as many keys as the write cap still allows.
BatchRoom == Room(i, MaxWrites)
BatchKeys(s) == SeqsUpTo(KeysOf(s), BatchRoom)
BatchVals(s) == SeqsUpTo(MutsOf(s), BatchRoom)
BatchFaults(keys) == -1 .. Len(keys)

\* The call's effect on the adapter.
Apply(r) ==
    /\ db' = r.st.db
    /\ i' = r.st.i
    /\ g' = r.st.g
    /\ UNCHANGED calls

Insert ==
    \E s \in Schemas : \E k \in KeysOf(s), v \in ValsOf(s), f \in Faults :
        /\ Apply(insert(St, s, k, v, f))
        /\ UNCHANGED mem

Get ==
    \E s \in Schemas : \E k \in KeysOf(s), f \in Faults :
        /\ Room(g, MaxReads) > 0
        /\ Apply(get(St, s, k, f))
        /\ UNCHANGED mem

Remove ==
    \E s \in Schemas : \E k \in KeysOf(s), f \in Faults :
        /\ Apply(remove(St, s, k, f))
        /\ UNCHANGED mem

Contains ==
    \E s \in Schemas : \E k \in KeysOf(s), f \in Faults :
        /\ Apply(contains(St, s, k, f))
        /\ UNCHANGED mem

BatchModify ==
    \E s \in Schemas : \E keys \in BatchKeys(s), vals \in BatchVals(s) :
        \E bf \in BatchFaults(keys) :
            /\ Apply(batch_modify(St, s, keys, vals, bf))
            /\ UNCHANGED mem

Next == Insert \/ Get \/ Remove \/ Contains \/ BatchModify

Spec == Init /\ [][Next]_vars

SpecCf == InitCf /\ [][Next]_vars

\* DB::open_cf opens the directory it is given, with what an earlier run or
\* an earlier version left in it.  Stale stands for such bytes: no schema
\* decodes them.  They may lie in the SignedTransaction partition under the
\* bare encoded key 1 and under the key get builds for key 1 at counter 0.
Stale == <<0>>

OldKeys ==
    LET key == EncodeKey("TransactionSchema", 1)
    IN  {key, real_key(0, key)}

OldColumns == {[x \in K |-> Stale] : K \in SUBSET OldKeys}

InitOld ==
    /\ db \in {[NewDb EXCEPT ![C_SIGNED_TRANSACTIONS] = col] : col \in OldColumns}
    /\ i = 0
    /\ g = 0
    /\ mem = NewMem
    /\ calls = NoCalls

SpecOld == InitOld /\ [][Next]_vars

\* The adapter after PREFIX_THRESHOLD - 1 counted reads that found nothing
\* and as many keys in batches that stored nothing, or as new leaves it.
InitLate ==
    /\ db = new.db
    /\ \E s \in CounterStarts : i = s /\ g = s
    /\ mem = NewMem
    /\ calls = NoCalls

SpecLate == InitLate /\ [][Next]_vars

----------------------------------------------------------------------------
(* The same calls made on both adapters, no failure injected *)

EqInsert ==
    \E s \in Schemas : \E k \in KeysOf(s), v \in ValsOf(s) :
        /\ Apply(insert(St, s, k, v, "none"))
        /\ mem' = mem_insert(mem, s, k, v)

EqGet ==
    \E s \in Schemas : \E k \in KeysOf(s) :
        /\ Room(g, MaxReads) > 0
        /\ Apply(get(St, s, k, "none"))
        /\ UNCHANGED mem

EqRemove ==
    \E s \in Schemas : \E k \in KeysOf(s) :
        /\ Apply(remove(St, s, k, "none"))
        /\ mem' = mem_remove(mem, s, k)

EqContains ==
    \E s \in Schemas : \E k \in KeysOf(s) :
        /\ Apply(contains(St, s, k, "none"))
        /\ UNCHANGED mem

EqBatchModify ==
    \E s \in Schemas : \E keys \in BatchKeys(s), vals \in BatchVals(s) :
        /\ Apply(batch_modify(St, s, keys, vals, 0))
        /\ mem' = mem_batch_modify(mem, s, keys, vals)

NextEq == EqInsert \/ EqGet \/ EqRemove \/ EqContains \/ EqBatchModify

SpecEq == Init /\ [][NextEq]_vars

----------------------------------------------------------------------------
(* The facade's calls on a RocksAdapter *)

\* A facade read is made while the reads it counts fit under the cap.
ReadRoom(r) == r.st.g <= MaxReads

\* Lists of pairwise distinct hashes of schema s, up to n long.
HashLists(s, n) ==
    {h \in SeqsUpTo(KeysOf(s), n) :
        \A p, q \in 1..Len(h) : p # q => h[p] # h[q]}

InsertTransactions ==
    \E txs \in HashLists("TransactionSchema", BatchRoom) :
        Apply(insert_transactions(St, txs)) /\ UNCHANGED mem

GetTransactions ==
    \E hashes \in HashLists("TransactionSchema", MaxWrites) :
        /\ ReadRoom(get_transactions(St, hashes))
        /\ Apply(get_transactions(St, hashes))
        /\ UNCHANGED mem

InsertReceipts ==
    \E receipts \in HashLists("ReceiptSchema", BatchRoom) :
        Apply(insert_receipts(St, receipts)) /\ UNCHANGED mem

GetReceipts ==
    \E hashes \in HashLists("ReceiptSchema", MaxWrites) :
        /\ ReadRoom(get_receipts(St, hashes))
        /\ Apply(get_receipts(St, hashes))
        /\ UNCHANGED mem

InsertBlock ==
    \E h \in KeysOf("BlockSchema") : Apply(insert_block(St, h)) /\ UNCHANGED mem

GetBlockByHeight ==
    \E h \in KeysOf("BlockSchema") :
        /\ ReadRoom(get_block_by_height(St, h))
        /\ Apply(get_block_by_height(St, h))
        /\ UNCHANGED mem

GetBlockByHash ==
    \E x \in KeysOf("HashHeightSchema") :
        /\ ReadRoom(get_block_by_hash(St, x))
        /\ Apply(get_block_by_hash(St, x))
        /\ UNCHANGED mem

GetLatestBlock ==
    /\ ReadRoom(get_latest_block(St))
    /\ Apply(get_latest_block(St))
    /\ UNCHANGED mem

UpdateLatestProof ==
    \E proof \in ValsOf("LatestProofSchema") :
        Apply(update_latest_proof(St, proof)) /\ UNCHANGED mem

GetLatestProof ==
    /\ ReadRoom(get_latest_proof(St))
    /\ Apply(get_latest_proof(St))
    /\ UNCHANGED mem

UpdateOverlordWal ==
    \E info \in ValsOf("OverlordWalSchema") :
        Apply(update_overlord_wal(St, info)) /\ UNCHANGED mem

LoadOverlordWal ==
    /\ ReadRoom(load_overlord_wal(St))
    /\ Apply(load_overlord_wal(St))
    /\ UNCHANGED mem

NextFacade ==
    \/ InsertTransactions \/ GetTransactions \/ InsertReceipts \/ GetReceipts
    \/ InsertBlock \/ GetBlockByHeight \/ GetBlockByHash \/ GetLatestBlock
    \/ UpdateLatestProof \/ GetLatestProof
    \/ UpdateOverlordWal \/ LoadOverlordWal

SpecFacade == Init /\ [][NextFacade]_vars

----------------------------------------------------------------------------
(* Calls running concurrently on one adapter.  Each step is one access to   *)
(* the shared adapter (an atomic load or fetch_add, one engine call); what  *)
(* a call does on its own locals between two accesses belongs to the step   *)
(* that follows.                                                            *)

\* What a concurrent batch is made of: keys of TransactionSchema, each
\* inserted with the value of the same number or removed.
ConcMuts == {BatchInsert(1), BatchRemove}

\* Keys the batches in progress have still to count.
RECURSIVE Pending(_)
Pending(W) ==
    IF W = {} THEN 0
    ELSE LET c == CHOOSE x \in W : TRUE
             left == IF calls[c].pc \in {"load_buf", "load_marker", "fetch_add"}
                     THEN Len(calls[c].keys) - calls[c].p + 1 ELSE 0
         IN  left + Pending(W \ {c})

\* batch_modify is called: the lengths agree and the partition is there.
BmStart ==
    \E c \in Writers : \E n \in 1..Room(i + Pending(Writers), MaxWrites) :
        \E keys \in [1..n -> KeysOf("TransactionSchema")], vals \in [1..n -> ConcMuts] :
            /\ calls[c].pc \in {"idle", "done"}
            /\ c = "w2" => calls["w1"].pc # "idle"
            /\ calls' = [calls EXCEPT ![c] =
                            [Idle EXCEPT !.pc = "load_buf", !.keys = keys,
                                         !.vals = vals, !.p = 1]]
            /\ UNCHANGED <<db, i, g, mem>>

\* BigEndian::write_u32(&mut buf, self.i.load(..))
BmLoadBuf ==
    \E c \in Writers :
        /\ calls[c].pc = "load_buf"
        /\ calls' = [calls EXCEPT ![c].buf = i, ![c].pc = "load_marker"]
        /\ UNCHANGED <<db, i, g, mem>>

\* if self.i.load(..) < 5000 { push(98) } else { push(97) }
BmLoadMarker ==
    \E c \in Writers :
        /\ calls[c].pc = "load_marker"
        /\ calls' = [calls EXCEPT
                        ![c].marker = IF i < PREFIX_THRESHOLD THEN MARKER_B ELSE MARKER_A,
                        ![c].pc = "fetch_add"]
        /\ UNCHANGED <<db, i, g, mem>>

\* The pair the loop pushes for position p of call c.
BmPair(c) ==
    LET l == calls[c]
    IN  [key |-> <<l.marker>> \o write_u32(l.buf) \o EncodeKey(l.s, l.keys[l.p]),
         put |-> l.vals[l.p].kind = "Insert",
         val |-> IF l.vals[l.p].kind = "Insert"
                 THEN EncodeVal(l.s, l.vals[l.p].val) ELSE <<>>]

\* self.i.fetch_add(1, ..); pairs.push(..)
BmFetchAdd ==
    \E c \in Writers :
        /\ calls[c].pc = "fetch_add"
        /\ i' = i + 1
        /\ calls' = [calls EXCEPT
                        ![c].pairs = Append(@, BmPair(c)),
                        ![c].p = @ + 1,
                        ![c].pc = IF calls[c].p = Len(calls[c].keys)
                                  THEN "write" ELSE "load_buf"]
        /\ UNCHANGED <<db, g, mem>>

\* self.db.write(batch): the whole batch, or an engine error and nothing.
BmWrite ==
    \E c \in Writers : \E ok \in BOOLEAN :
        LET column == get_column(db, calls[c].s).column
        IN  /\ calls[c].pc = "write"
            /\ db' = IF ok THEN [db EXCEPT ![column] = write(@, calls[c].pairs)]
                      ELSE db
            /\ calls' = [calls EXCEPT ![c] =
                            [Idle EXCEPT !.pc = "done", !.pairs = calls[c].pairs,
                                         !.res = R(IF ok THEN "Ok" ELSE "RocksDB")]]
            /\ UNCHANGED <<i, g, mem>>

\* get by the reading task.  No other task touches the read counter, so
\* the two loads of it, the engine lookup and the fetch_add of one get are
\* one step among the writers' steps: the step of its engine lookup.
ConcGet ==
    \E c \in Readers : \E k \in KeysOf("TransactionSchema") :
        LET r == get(St, "TransactionSchema", k, "none")
        IN  /\ Room(g, MaxReads) > 0
            /\ g' = r.st.g
            /\ calls' = [calls EXCEPT ![c] =
                            [Idle EXCEPT !.pc = "done", !.res = r.res]]
            /\ UNCHANGED <<db, i, mem>>

\* contains: one engine lookup of the bare key.
ConcContains ==
    \E c \in Readers : \E k \in KeysOf("TransactionSchema") :
        /\ calls' = [calls EXCEPT ![c] =
                        [Idle EXCEPT !.pc = "done",
                                     !.res = contains(St, "TransactionSchema", k, "none").res]]
        /\ UNCHANGED <<db, i, g, mem>>

NextConc ==
    \/ BmStart \/ BmLoadBuf \/ BmLoadMarker \/ BmFetchAdd \/ BmWrite
    \/ ConcGet \/ ConcContains

SpecConc == InitLate /\ [][NextConc]_vars

TypeOK ==
    /\ DOMAIN db \subseteq categories
    /\ \E s \in CounterStarts : i \in s..(s + MaxWrites)
    /\ \E s \in CounterStarts : g \in s..(s + MaxReads)
    /\ DOMAIN mem = StorageCategory

----------------------------------------------------------------------------
(* What the properties quantify over *)

\* Every (schema, key) a call can name.
SchemaKeys == {<<s, k>> : s \in Schemas, k \in {1, 2}} \cap
              UNION {{<<s, k>> : k \in KeysOf(s)} : s \in Schemas}

\* What get and contains return in adapter state st when nothing fails.
Reads(st) ==
    [sk \in SchemaKeys |->
        <<get(st, sk[1], sk[2], "none").res, contains(st, sk[1], sk[2], "none").res>>]

\* The batches a call may carry in this state, keys and mutations of equal
\* length.
Batches(s) ==
    UNION {[1..m -> KeysOf(s)] \X [1..m -> MutsOf(s)] : m \in 0..BatchRoom}

\* The key lists and mutation lists of unequal length a call may carry.
Mismatched(s) ==
    {b \in BatchKeys(s) \X BatchVals(s) : Len(b[1]) # Len(b[2])}

Distinct(keys) == \A p, q \in 1..Len(keys) : p # q => keys[p] # keys[q]

\* Some bytes are stored somewhere.
StoreNonEmpty == \E c \in DOMAIN db : DOMAIN db[c] # {}

----------------------------------------------------------------------------
(* C1..C10 *)

\* C1: round trip.  In every reachable state, for every schema, key k and
\* value v: when insert(k, v) returns Ok, the get(k) that follows returns
\* Some(v).
C1_RoundTrip ==
    \A s \in Schemas : \A k \in KeysOf(s), v \in ValsOf(s), f \in Faults :
        LET r == insert(St, s, k, v, f)
        IN  r.res.tag = "Ok" => get(r.st, s, k, "none").res = Some(v)

\* C2: batch visibility on success.  In every reachable state, when
\* batch_modify with pairwise distinct keys returns Ok, then for each pair
\* (k, Insert(v)) a following get(k) returns Some(v) and contains(k) true, and
\* for each pair (k, Remove) a following get(k) returns None and contains(k)
\* false.
C2_BatchVisible ==
    \A s \in Schemas : \A b \in Batches(s) : \A bf \in BatchFaults(b[1]) :
        LET keys == b[1]
            vals == b[2]
            r == batch_modify(St, s, keys, vals, bf)
        IN  (Distinct(keys) /\ r.res.tag = "Ok") =>
                \A p \in 1..Len(keys) :
                    IF vals[p].kind = "Insert"
                    THEN /\ get(r.st, s, keys[p], "none").res = Some(vals[p].val)
                         /\ contains(r.st, s, keys[p], "none").res = R("True")
                    ELSE /\ get(r.st, s, keys[p], "none").res = R("None")
                         /\ contains(r.st, s, keys[p], "none").res = R("False")

\* C3: batch all-or-nothing on failure.  In every reachable state, when
\* batch_modify returns an error (the engine write fails, or a key or value
\* at any position fails to encode), get and contains return for every key
\* of every category what they returned before the call.
C3_BatchFailureUnobservable ==
    LET before == Reads(St)
    IN  \A s \in Schemas : \A b \in Batches(s) : \A bf \in BatchFaults(b[1]) :
            LET r == batch_modify(St, s, b[1], b[2], bf)
            IN  r.res.tag \in ErrorTags => Reads(r.st) = before

\* C3 witness: a store on which an insert and a batch landed (contains finds
\* one key, get another value) and on which a batch fails at the engine write
\* after the counter was folded into a key.
C3_Witness ==
    /\ \E sk \in SchemaKeys : Reads(St)[sk][1].tag = "Some"
    /\ \E sk \in SchemaKeys : Reads(St)[sk][2] = R("True")
    /\ \E s \in Schemas : \E b \in Batches(s) :
        /\ batch_modify(St, s, b[1], b[2], -1).res = R("RocksDB")
        /\ batch_modify(St, s, b[1], b[2], -1).st.i > i

\* C4: length validation.  In every reachable state, also of a store that
\* lacks a partition, batch_modify with key and mutation lists of unequal
\* length returns BatchLengthMismatch whatever else would fail (encoding,
\* the column lookup, the engine), and leaves the store and both counters as
\* they were.
C4_LengthValidation ==
    \A s \in Schemas : \A b \in Mismatched(s) : \A bf \in BatchFaults(b[1]) :
        batch_modify(St, s, b[1], b[2], bf) = Ret(St, R("BatchLengthMismatch"))

\* C4 witness: a store that holds data and lacks the Receipt partition, on
\* which a batch for ReceiptSchema with one key, no mutation and a key that
\* fails to encode is rejected for its lengths.
C4_Witness ==
    /\ StoreNonEmpty
    /\ i > 0
    /\ C_RECEIPTS \notin DOMAIN db
    /\ <<<<1>>, <<>>>> \in Mismatched("ReceiptSchema")
    /\ batch_modify(St, "ReceiptSchema", <<1>>, <<>>, 1).res = R("BatchLengthMismatch")

\* C5: idempotent overwrite.  In every reachable state, for every key k and
\* values v1, v2: insert(k, v1) then insert(k, v2) both return Ok and the
\* get(k) that follows returns Some(v2).
C5_Overwrite ==
    \A s \in Schemas : \A k \in KeysOf(s), v1 \in ValsOf(s), v2 \in ValsOf(s) :
        LET r1 == insert(St, s, k, v1, "none")
            r2 == insert(r1.st, s, k, v2, "none")
        IN  /\ r1.res = R("Ok")
            /\ r2.res = R("Ok")
            /\ get(r2.st, s, k, "none").res = Some(v2)

\* C6: absence.  get(k) returns None for every key of an empty store, and, in
\* every reachable state, for every key whose most recent mutation is a
\* removal: remove(k), or a batch Remove for k.
C6_Absence ==
    /\ (db = NewDb => \A sk \in SchemaKeys : Reads(St)[sk][1] = R("None"))
    /\ \A sk \in SchemaKeys :
        LET r == remove(St, sk[1], sk[2], "none")
            rb == batch_modify(St, sk[1], <<sk[2]>>, <<BatchRemove>>, 0)
        IN  /\ r.res.tag = "Ok" => get(r.st, sk[1], sk[2], "none").res = R("None")
            /\ rb.res.tag = "Ok" => get(rb.st, sk[1], sk[2], "none").res = R("None")

\* C7: no-op remove.  In every reachable state, remove(k) on a key absent
\* from the schema's partition returns Ok when nothing fails, and in every
\* case leaves the contents of every partition and both counters unchanged.
C7_NoOpRemove ==
    \A sk \in SchemaKeys :
        LET c == get_column(db, sk[1])
        IN  (c.ok /\ EncodeKey(sk[1], sk[2]) \notin DOMAIN db[c.column]) =>
                /\ remove(St, sk[1], sk[2], "none") = Ret(St, R("Ok"))
                /\ \A f \in Faults : remove(St, sk[1], sk[2], f).st = St

\* C7 witness: a store that holds data, with both counters moved, in which
\* a key is absent from its partition although a batch wrote it, and remove
\* of that key returns Ok.
C7_Witness ==
    /\ i > 0
    /\ g > 0
    /\ \E sk \in SchemaKeys :
        LET column == db[map_category(SchemaCategory(sk[1]))]
            key == EncodeKey(sk[1], sk[2])
        IN  /\ key \notin DOMAIN column
            /\ \E n \in 0..(i - 1) : real_key(n, key) \in DOMAIN column
            /\ \E other \in DOMAIN column : Len(other) = Len(key)
            /\ remove(St, sk[1], sk[2], "none").res = R("Ok")

\* What a write for schema s may change: its own partition, and nothing that
\* get or contains returns for a schema of another category.
Isolated(s, r) ==
    /\ DOMAIN r.st.db = DOMAIN db
    /\ \A col \in DOMAIN db :
        col # map_category(SchemaCategory(s)) => r.st.db[col] = db[col]
    /\ \A sk \in SchemaKeys :
        SchemaCategory(sk[1]) # SchemaCategory(s) =>
            /\ get(r.st, sk[1], sk[2], "none").res = get(St, sk[1], sk[2], "none").res
            /\ contains(r.st, sk[1], sk[2], "none").res
                    = contains(St, sk[1], sk[2], "none").res

\* C8: category isolation.  In every reachable state, insert, remove and
\* batch_modify for a schema of category C change the partition of C only,
\* and change nothing get or contains returns for a key, the same encoded
\* bytes included, under a schema of another category.
C8_CategoryIsolation ==
    \A s \in Schemas :
        /\ \A k \in KeysOf(s), f \in Faults :
            /\ Isolated(s, remove(St, s, k, f))
            /\ \A v \in ValsOf(s) : Isolated(s, insert(St, s, k, v, f))
        /\ \A b \in Batches(s) : \A bf \in BatchFaults(b[1]) :
            Isolated(s, batch_modify(St, s, b[1], b[2], bf))

\* C8 witness: both categories hold different bytes under the same encoded
\* key, and a write for one of them changes the store.
C8_Witness ==
    /\ insert(St, "ReceiptSchema", 1, 1, "none").res = R("Ok")
    /\ remove(St, "TransactionSchema", 1, "none").st.db # db
    /\ \E b \in Batches("TransactionSchema") :
        batch_modify(St, "TransactionSchema", b[1], b[2], 0).st.db # db
    /\ <<1>> \in DOMAIN db[C_SIGNED_TRANSACTIONS]
    /\ <<1>> \in DOMAIN db[C_RECEIPTS]
    /\ db[C_SIGNED_TRANSACTIONS][<<1>>] # db[C_RECEIPTS][<<1>>]

\* C9: backend equivalence.  After the same calls on a new in-memory adapter
\* and a new persistent adapter, nothing failing, get and contains return the
\* same in both for every key.
C9_BackendEquivalence ==
    \A sk \in SchemaKeys :
        /\ get(St, sk[1], sk[2], "none").res = mem_get(mem, sk[1], sk[2])
        /\ contains(St, sk[1], sk[2], "none").res = mem_contains(mem, sk[1], sk[2])

\* C10: caller-supplied order inside a batch.  In every reachable state, a
\* batch naming key k twice leaves k as its last mutation says: after
\* <Insert(v1), Remove> get(k) returns None and contains(k) false; after
\* <Remove, Insert(v2)> get(k) returns Some(v2) and contains(k) true.
C10_BatchOrder ==
    \A s \in Schemas : \A k \in KeysOf(s), v \in ValsOf(s) :
        LET ir == batch_modify(St, s, <<k, k>>, <<BatchInsert(v), BatchRemove>>, 0)
            ri == batch_modify(St, s, <<k, k>>, <<BatchRemove, BatchInsert(v)>>, 0)
        IN  /\ ir.res.tag = "Ok" =>
                /\ get(ir.st, s, k, "none").res = R("None")
                /\ contains(ir.st, s, k, "none").res = R("False")
            /\ ri.res.tag = "Ok" =>
                /\ get(ri.st, s, k, "none").res = Some(v)
                /\ contains(ri.st, s, k, "none").res = R("True")

----------------------------------------------------------------------------
(* C11..C20 *)

\* The bytes stored for schema s under physical key pk, if any.
Stored(st, s, pk) ==
    LET c == get_column(st.db, s)
    IN  c.ok /\ pk \in DOMAIN st.db[c.column]

StoredBytes(st, s, pk) == st.db[get_column(st.db, s).column][pk]

\* C11: contains is a pure existence check.  In every reachable state, for
\* every schema and key k: contains(k) returns true exactly when bytes are
\* stored under k's encoded key in the schema's partition, whether or not
\* they decode, and false when none are; and whatever it returns, failures
\* included, it leaves the store and both counters as they were.
C11_ContainsPure ==
    \A s \in Schemas : \A k \in KeysOf(s) :
        /\ contains(St, s, k, "none").res =
               R(IF Stored(St, s, EncodeKey(s, k)) THEN "True" ELSE "False")
        /\ \A f \in Faults : contains(St, s, k, f).st = St

\* Bytes that do not decode lie under the encoded key of k, calls have been
\* made on the adapter, and contains(k) answers true.
C11_Witness ==
    /\ i > 0 /\ g > 0
    /\ \E s \in Schemas : \E k \in KeysOf(s) :
            /\ Stored(St, s, EncodeKey(s, k))
            /\ DecodeVal(s, StoredBytes(St, s, EncodeKey(s, k))).tag = "CodecError"
            /\ contains(St, s, k, "none").res.tag = "True"

\* The physical key get looks up for key k of schema s in adapter state st.
GetKey(st, s, k) == real_key(st.g, EncodeKey(s, k))

\* C12: a decode failure is an error, never a missing key.  In every
\* reachable state, for every schema and key k: when bytes lie under the
\* physical key get(k) looks up and they do not decode, get returns an
\* error; and whenever get returns None, failures included, no bytes lie
\* under that physical key.
C12_DecodeFailureIsError ==
    \A s \in Schemas : \A k \in KeysOf(s) :
        LET pk == GetKey(St, s, k)
        IN  /\ (/\ Stored(St, s, pk)
                /\ DecodeVal(s, StoredBytes(St, s, pk)).tag # "Some")
                    => get(St, s, k, "none").res.tag \in ErrorTags
            /\ \A f \in Faults :
                    get(St, s, k, f).res.tag = "None" => ~Stored(St, s, pk)

\* Writes have been made, bytes that do not decode lie under the physical
\* key get looks up for some k, and get(k) returns the codec's error, having
\* counted the lookup.
C12_Witness ==
    /\ i > 0
    /\ \E s \in Schemas : \E k \in KeysOf(s) :
            /\ Stored(St, s, GetKey(St, s, k))
            /\ StoredBytes(St, s, GetKey(St, s, k)) = Stale
            /\ get(St, s, k, "none").res.tag = "CodecError"
            /\ get(St, s, k, "none").st.g = g + 1

\* C13: the category-to-partition mapping is total, injective and constant.
\* In every reachable state each of the four categories maps to one of the
\* partition names c1..c4, no two categories map to the same name, and the
\* partition get_column resolves a schema to is the name its category maps
\* to and is open in the store, whatever the store holds.
C13_CategoryMapping ==
    /\ \A c \in StorageCategory :
            map_category(c) \in {C_BLOCKS, C_SIGNED_TRANSACTIONS, C_RECEIPTS, C_WALS}
    /\ \A c, d \in StorageCategory : map_category(c) = map_category(d) => c = d
    /\ Cardinality(DOMAIN db) = Cardinality(StorageCategory)
    /\ \A s \in Schemas :
            /\ get_column(db, s).column = map_category(SchemaCategory(s))
            /\ get_column(db, s).ok

\* Bytes have been written to the partitions of two categories, and the four
\* categories still resolve to four open partitions.
C13_Witness ==
    /\ DOMAIN db[map_category("SignedTransaction")] # {}
    /\ DOMAIN db[map_category("Receipt")] # {}
    /\ i > 0 /\ g > 0
    /\ {map_category(c) : c \in StorageCategory} = DOMAIN db
    /\ Cardinality(DOMAIN db) = 4

\* C14: the facade's multi-get keeps the input order.  In every state
\* reached by facade calls, for every list of pairwise distinct hashes:
\* when insert_transactions (insert_receipts) has stored the items of those
\* hashes, get_transactions (get_receipts) of the list returns one item per
\* hash, the p-th item being the one whose tx_hash is the p-th hash.
Found(hashes) == [p \in 1..Len(hashes) |-> Some(hashes[p])]

C14_FacadeOrder ==
    /\ \A hashes \in HashLists("TransactionSchema", BatchRoom) :
            LET r == insert_transactions(St, hashes)
            IN  r.res.tag = "Ok" => get_transactions(r.st, hashes).res = Found(hashes)
    /\ \A hashes \in HashLists("ReceiptSchema", BatchRoom) :
            LET r == insert_receipts(St, hashes)
            IN  r.res.tag = "Ok" => get_receipts(r.st, hashes).res = Found(hashes)

\* C15: the block indexes agree.  In every state reached by facade calls,
\* for every height h: after insert_block of the block of height h,
\* get_block_by_height(h), get_block_by_hash(its hash) and get_latest_block
\* each return that block; and in the state itself the by-height entry, the
\* by-hash entry and the latest pointer are updated together: a block has
\* its by-height entry exactly when its hash has its by-hash entry, and the
\* latest pointer is set exactly when some block is stored.
C15_BlockIndexes ==
    /\ \A h \in KeysOf("BlockSchema") :
            LET r == insert_block(St, h)
            IN  r.res.tag = "Ok" =>
                    /\ get_block_by_height(r.st, h).res = Some(h)
                    /\ get_block_by_hash(r.st, BlockHash(h)).res = Some(h)
                    /\ get_latest_block(r.st).res = Some(h)
    /\ \A h \in KeysOf("BlockSchema") :
            Stored(St, "BlockSchema", EncodeKey("BlockSchema", h))
                <=> Stored(St, "HashHeightSchema",
                           EncodeKey("HashHeightSchema", BlockHash(h)))
    /\ Stored(St, "LatestBlockSchema", EncodeKey("LatestBlockSchema", LATEST_BLOCK_KEY))
            <=> \E h \in KeysOf("BlockSchema") :
                    Stored(St, "BlockSchema", EncodeKey("BlockSchema", h))

\* C16: the singleton records hold the last update.  In every state reached
\* by facade calls: after update_overlord_wal(info), load_overlord_wal
\* returns info; after update_latest_proof(proof), get_latest_proof returns
\* proof; and an update of one changes nothing of what reading the other
\* returns.
C16_Singletons ==
    /\ \A info \in ValsOf("OverlordWalSchema") :
            LET r == update_overlord_wal(St, info)
            IN  /\ r.res.tag = "Ok" => load_overlord_wal(r.st).res = Some(info)
                /\ get_latest_proof(r.st).res = get_latest_proof(St).res
    /\ \A proof \in ValsOf("LatestProofSchema") :
            LET r == update_latest_proof(St, proof)
            IN  /\ r.res.tag = "Ok" => get_latest_proof(r.st).res = Some(proof)
                /\ load_overlord_wal(r.st).res = load_overlord_wal(St).res

\* The write-counter values batch_modify has folded into keys so far.
Written == {n \in 0..MaxWrites : n < i}

\* The physical key batch_modify builds for key k of schema s at
\* write-counter value n.
BatchKey(s, k, n) == real_key(n, EncodeKey(s, k))

\* C18 as stated: point lookup of batch-written keys depends on call order.
\* In every reachable state, for every key k with an entry batch_modify
\* wrote at write-counter value n: get(k) returns that entry's value only
\* if the read counter equals n, and at any other read-counter value get(k)
\* returns None.
C18_OrderDependent ==
    \A s \in Schemas : \A k \in KeysOf(s), n \in Written :
        Stored(St, s, BatchKey(s, k, n)) =>
            LET res == get(St, s, k, "none").res
                val == DecodeVal(s, StoredBytes(St, s, BatchKey(s, k, n)))
            IN  /\ res = val => g = n
                /\ g # n => res = R("None")

\* C18, amended: in every reachable state, for every key k with an entry
\* batch_modify wrote at write-counter value n: when the read counter
\* equals n, get(k) returns that entry's value; at any other read-counter
\* value m, get(k) does not read that entry: it returns None, unless a
\* batch also wrote an entry for k at write-counter value m, and then it
\* returns the value of that other entry.
C18_OrderDependentAmended ==
    \A s \in Schemas : \A k \in KeysOf(s), n \in Written :
        Stored(St, s, BatchKey(s, k, n)) =>
            LET res == get(St, s, k, "none").res
                here == BatchKey(s, k, g)
            IN  /\ g = n => res = DecodeVal(s, StoredBytes(St, s, BatchKey(s, k, n)))
                /\ g # n =>
                       /\ here # BatchKey(s, k, n)
                       /\ IF Stored(St, s, here)
                          THEN g \in Written
                               /\ res = DecodeVal(s, StoredBytes(St, s, here))
                          ELSE res = R("None")

\* Reads and batches have been made; one key's entry was written at the
\* counter value the read counter now has, and get returns its value; another
\* key's entry was written at another counter value, and get returns None
\* for it although it is stored.
C18_Witness ==
    /\ g > 0
    /\ \E s \in Schemas : \E k \in KeysOf(s) :
            /\ Stored(St, s, BatchKey(s, k, g))
            /\ get(St, s, k, "none").res.tag = "Some"
    /\ \E s \in Schemas : \E k \in KeysOf(s), n \in Written :
            /\ n # g
            /\ Stored(St, s, BatchKey(s, k, n))
            /\ get(St, s, k, "none").res = R("None")

\* The partition of schema s in adapter state st.
Col(st, s) == st.db[get_column(st.db, s).column]

\* pk is marker byte, counter as 4 big-endian bytes, then key.
IsPhysical(pk, counter, key) ==
    /\ Len(pk) = 5 + Len(key)
    /\ pk[1] = IF counter < 5000 THEN 98 ELSE 97
    /\ \A j \in 2..5 : pk[j] \in 0..255
    /\ pk[2] * 16777216 + pk[3] * 65536 + pk[4] * 256 + pk[5] = counter
    /\ SubSeq(pk, 6, Len(pk)) = key

\* Columns a and b hold the same bytes under every key outside touched.
SameExcept(a, b, touched) ==
    \A x \in ((DOMAIN a) \cup (DOMAIN b)) \ touched :
        x \in DOMAIN a /\ x \in DOMAIN b /\ a[x] = b[x]

\* The keys of column col that are key behind the prefix of counter.
Prefixed(col, counter, key) == {pk \in DOMAIN col : IsPhysical(pk, counter, key)}

KeyCalls(s, k, f) ==
    {insert(St, s, k, v, f) : v \in ValsOf(s)}
        \cup {get(St, s, k, f), remove(St, s, k, f), contains(St, s, k, f)}

\* The results of batch_modify for schema s with lists of equal length,
\* under every failure.
EvenBatchCalls(s) ==
    UNION {{batch_modify(St, s, b[1], b[2], bf) : bf \in BatchFaults(b[1])} :
              b \in Batches(s)}

\* The results of batch_modify for schema s with lists of unequal length.
OddBatchCalls(s) ==
    {batch_modify(St, s, b[1], b[2], bf) : b \in Mismatched(s), bf \in {-1, 0}}

\* new opens the four partitions, and a schema whose partition is open is
\* never answered CategoryNotFound.
PartitionsOpen ==
    /\ DOMAIN new.db = {"c1", "c2", "c3", "c4"}
    /\ \A s \in Schemas :
            get_column(db, s).ok =>
                /\ \A k \in KeysOf(s), f \in Faults :
                       \A r \in KeyCalls(s, k, f) : r.res.tag # "CategoryNotFound"
                /\ \A r \in EvenBatchCalls(s) \cup OddBatchCalls(s) :
                       r.res.tag # "CategoryNotFound"

\* C20 as stated: partitions exist after construction.  new opens c1, c2,
\* c3 and c4, and in every state reached from it no call returns
\* CategoryNotFound; in every state of a store opened without a category's
\* partition, each call for that category, whatever its arguments and
\* whatever failure, returns CategoryNotFound and leaves the adapter as it
\* was.
C20_Partitions ==
    /\ PartitionsOpen
    /\ \A s \in Schemas :
            ~get_column(db, s).ok =>
                /\ \A k \in KeysOf(s), f \in Faults :
                       \A r \in KeyCalls(s, k, f) :
                           r.res.tag = "CategoryNotFound" /\ r.st = St
                /\ \A r \in EvenBatchCalls(s) \cup OddBatchCalls(s) :
                       r.res.tag = "CategoryNotFound" /\ r.st = St

\* C20, amended: as stated, except that batch_modify called with a key
\* list and a mutation list of unequal length for a category whose
\* partition is absent returns BatchLengthMismatch, also leaving the adapter
\* as it was.
C20_PartitionsAmended ==
    /\ PartitionsOpen
    /\ \A s \in Schemas :
            ~get_column(db, s).ok =>
                /\ \A k \in KeysOf(s), f \in Faults :
                       \A r \in KeyCalls(s, k, f) :
                           r.res.tag = "CategoryNotFound" /\ r.st = St
                /\ \A r \in EvenBatchCalls(s) :
                       r.res.tag = "CategoryNotFound" /\ r.st = St
                /\ \A r \in OddBatchCalls(s) :
                       r.res.tag = "BatchLengthMismatch" /\ r.st = St

\* The Receipt partition is absent, the SignedTransaction partition has
\* been written, and calls for ReceiptSchema are answered CategoryNotFound,
\* a batch of unequal lists BatchLengthMismatch.
C20_Witness ==
    /\ ~get_column(db, "ReceiptSchema").ok
    /\ get_column(db, "TransactionSchema").ok
    /\ DOMAIN Col(St, "TransactionSchema") # {}
    /\ insert(St, "ReceiptSchema", 1, 1, "none").res.tag = "CategoryNotFound"
    /\ batch_modify(St, "ReceiptSchema", <<1>>, <<BatchRemove>>, 0).res.tag
           = "CategoryNotFound"
    /\ batch_modify(St, "ReceiptSchema", <<1>>, <<>>, 0).res.tag
           = "BatchLengthMismatch"

----------------------------------------------------------------------------
(* C21..C24 *)

\* C22: a failed batch_modify leaves the whole adapter unchanged, the write
\* counter included.  In every reachable state, for every batch and every
\* failure (unequal lengths, encode failure at any position, engine write
\* failure): when batch_modify returns an error the adapter is as it was
\* before the call, and any batch made next is written as it would have been
\* written without the failed call.
C22_FailedBatchNoTrace ==
    \A s \in Schemas :
        /\ \A b \in Batches(s) : \A bf \in BatchFaults(b[1]) :
               LET r == batch_modify(St, s, b[1], b[2], bf)
               IN  r.res.tag # "Ok" =>
                       /\ r.st = St
                       /\ \A k \in KeysOf(s), v \in ValsOf(s) :
                              batch_modify(r.st, s, <<k>>, <<BatchInsert(v)>>, 0).st.db
                                  = batch_modify(St, s, <<k>>, <<BatchInsert(v)>>, 0).st.db
        /\ \A b \in Mismatched(s) :
               batch_modify(St, s, b[1], b[2], 0).st = St

\* C23: get is repeatable.  In every reachable state, for every key k: the
\* get(k) made right after a get(k) returns what the first returned, and
\* after a get(k) every get and contains, for every key, returns what it
\* would have returned without it.
C23_GetRepeatable ==
    \A s \in Schemas : \A k \in KeysOf(s) :
        LET first == get(St, s, k, "none")
        IN  /\ get(first.st, s, k, "none").res = first.res
            /\ Reads(first.st) = Reads(St)

\* Column after is column before with every entry of pairs applied: a key
\* no entry names is as it was, a key some entry names is as its last
\* entry leaves it.
AppliedWhole(before, after, pairs) ==
    \A x \in (DOMAIN before) \cup (DOMAIN after)
                \cup {pairs[p].key : p \in 1..Len(pairs)} :
        LET hits == {p \in 1..Len(pairs) : pairs[p].key = x}
            last == CHOOSE p \in hits : \A q \in hits : q <= p
        IN  IF hits = {}
            THEN (x \in DOMAIN before <=> x \in DOMAIN after)
                 /\ (x \in DOMAIN before => after[x] = before[x])
            ELSE IF pairs[last].put
                 THEN x \in DOMAIN after /\ after[x] = pairs[last].val
                 ELSE x \notin DOMAIN after

\* One step of the store: the batch of a writer at its write, whole.
WholeBatchStep ==
    \E c \in Writers :
        /\ calls[c].pc = "write"
        /\ calls'[c].pc = "done"
        /\ \A col \in DOMAIN db :
               IF col = get_column(db, calls[c].s).column
               THEN AppliedWhole(db[col], db'[col], calls[c].pairs)
               ELSE db'[col] = db[col]

\* C21: concurrent batches are atomic as a unit.  With two tasks in
\* batch_modify and one in get and contains on one adapter, interleaved
\* step by step, the store changes only by the whole batch of one call at
\* a time: every state of the store a get or contains can read is the empty
\* store with whole batches applied one after another, never a batch in
\* part.
C21_BatchesAtomic == [][db' # db => WholeBatchStep]_vars

\* A batch of two inserts has been written, both of its entries are in the
\* store, and the reading task has read one of them.
C21_Witness ==
    /\ \E c \in Writers :
            /\ calls[c].pc = "done" /\ calls[c].res.tag = "Ok"
            /\ Len(calls[c].pairs) = 2
            /\ calls[c].pairs[1].key # calls[c].pairs[2].key
            /\ \A p \in 1..2 :
                   /\ calls[c].pairs[p].put
                   /\ calls[c].pairs[p].key \in DOMAIN db[C_SIGNED_TRANSACTIONS]
    /\ calls["r1"].pc = "done" /\ calls["r1"].res.tag = "Some"

\* The counter value in the 4 bytes after the marker of physical key pk.
CounterOf(pk) == pk[2] * 16777216 + pk[3] * 65536 + pk[4] * 256 + pk[5]

\* The physical keys the batch_modify calls have built, each with its call
\* and position.
BuiltKeys ==
    UNION {{<<c, p, calls[c].pairs[p].key>> : p \in 1..Len(calls[c].pairs)} :
              c \in Writers}

MarkersAgree ==
    \A b \in BuiltKeys : b[3][1] = 98 <=> CounterOf(b[3]) < 5000

CountersUnique ==
    \A a, b \in BuiltKeys :
        CounterOf(a[3]) = CounterOf(b[3]) => a[1] = b[1] /\ a[2] = b[2]

\* C24: prefixes stay well-formed and unique under concurrency.  With
\* batch_modify calls interleaved step by step on one adapter, every
\* physical key built has marker 98 exactly when the counter in its 4 bytes
\* is below 5000, and no two keys built, in one call or in two, carry the
\* same counter value.
C24_PrefixesUnique == MarkersAgree /\ CountersUnique

=============================================================================
